---- MODULE Spec2Model ----
(***************************************************************************)
(* parnas: selection of representative taxa (medoids) on a weighted        *)
(* phylogenetic tree.  The module models the command-line program          *)
(* src/parnas.py (its top-level script and color_by_clusters) together     *)
(* with the parnaslib operations it calls.                                 *)
(*                                                                         *)
(* Edge lengths, distances, radii and costs are counted in half units, so  *)
(* that the trees of src/tests/test_tree_medoids.py (lengths such as 2.5   *)
(* and 0.5) are integers: a length of 2.5 is written 5.                    *)
(***************************************************************************)
EXTENDS Integers, Sequences, FiniteSets, TLC

\* ------------------------------------------------------------------ bounds
MaxN == 3
MaxRadius == 3
MaxPriors == 1

\* ------------------------------------------------------------------- trees
\* A node owns its children, has the length of its incoming edge and two
\* annotations: 'center' (empty, or one index) and '!color' (the list of the
\* values annotated under that name).  A leaf carries its taxon label.
Node(label, len, kids, color) ==
    [label |-> label, len |-> len, kids |-> kids, center |-> <<>>, color |-> color]

Leaf(label, len) == Node(label, len, <<>>, <<>>)

Inner(len, kids) == Node("", len, kids, <<>>)

IsLeaf(t) == t.kids = <<>>

RECURSIVE LeafSeq(_)
\* The leaf labels of a tree, left to right.
LeafSeq(t) ==
    IF IsLeaf(t) THEN <<t.label>>
    ELSE LET RECURSIVE Cat(_)
             Cat(i) == IF i > Len(t.kids) THEN <<>>
                       ELSE LeafSeq(t.kids[i]) \o Cat(i + 1)
         IN Cat(1)

Range(s) == {s[i] : i \in DOMAIN s}

LeafSet(t) == Range(LeafSeq(t))

RECURSIVE NodeCount(_)
NodeCount(t) ==
    LET RECURSIVE Sum(_)
        Sum(i) == IF i > Len(t.kids) THEN 0 ELSE NodeCount(t.kids[i]) + Sum(i + 1)
    IN 1 + Sum(1)

\* The child of t whose subtree holds leaf l.
ChildWith(t, l) == CHOOSE i \in DOMAIN t.kids : l \in LeafSet(t.kids[i])

RECURSIVE RootDist(_, _)
\* Sum of the edge lengths from the root of t down to leaf l (the leaf's depth).
RootDist(t, l) ==
    IF IsLeaf(t) THEN 0
    ELSE LET k == t.kids[ChildWith(t, l)] IN k.len + RootDist(k, l)

RECURSIVE LcaDepth(_, _, _)
\* Depth of the lowest common ancestor of leaves u and v.
LcaDepth(t, u, v) ==
    IF IsLeaf(t) THEN 0
    ELSE IF ChildWith(t, u) = ChildWith(t, v)
         THEN LET k == t.kids[ChildWith(t, u)] IN k.len + LcaDepth(k, u, v)
         ELSE 0

\* distance(u, v): depth(u) + depth(v) - 2 * depth(lca(u, v)).
Distance(t, u, v) == RootDist(t, u) + RootDist(t, v) - 2 * LcaDepth(t, u, v)

\* ------------------------------------------------------------ binarization
RECURSIVE SuppressUnifurcations(_)
\* A node with one child is removed; the child takes the sum of the two
\* edge lengths.
SuppressUnifurcations(t) ==
    IF IsLeaf(t) THEN t
    ELSE IF Len(t.kids) = 1
         THEN LET c == SuppressUnifurcations(t.kids[1])
              IN [c EXCEPT !.len = c.len + t.len]
         ELSE [t EXCEPT !.kids = [i \in DOMAIN t.kids |-> SuppressUnifurcations(t.kids[i])]]

RECURSIVE Chain(_, _)
\* The left-leaning chain over children ks: ((k1, k2), k3), ... ; every
\* node of it below the top is new and has edge length edge_length.
Chain(ks, edge_length) ==
    IF Len(ks) <= 2 THEN ks
    ELSE << Inner(edge_length, Chain(SubSeq(ks, 1, Len(ks) - 1), edge_length)),
            ks[Len(ks)] >>

RECURSIVE Multifurcations(_, _)
Multifurcations(t, edge_length) ==
    IF IsLeaf(t) THEN t
    ELSE [t EXCEPT !.kids =
             Chain([i \in DOMAIN t.kids |-> Multifurcations(t.kids[i], edge_length)],
                   edge_length)]

binarize_tree(t, edge_length) == Multifurcations(SuppressUnifurcations(t), edge_length)

RECURSIVE IsBinary(_)
IsBinary(t) ==
    IsLeaf(t) \/ (Len(t.kids) = 2 /\ \A i \in DOMAIN t.kids : IsBinary(t.kids[i]))

\* ------------------------------------------------------- distance oracle
\* +infinity: the distance to the nearest representative when there is none.
Inf == 1000000

Min2(a, b) == IF a <= b THEN a ELSE b

\* Float addition where either operand may be +infinity.
Plus(a, b) == IF a = Inf \/ b = Inf THEN Inf ELSE a + b

\* Every leaf-to-leaf distance of a tree, computed once.
DistanceTable(t) ==
    [p \in LeafSet(t) \X LeafSet(t) |-> Distance(t, p[1], p[2])]

\* Mutant of Nearest: the greatest distance instead of the least.
Farthest(dist, l, S) ==
    IF S = {} THEN Inf
    ELSE LET D == {dist[<<l, s>>] : s \in S}
         IN CHOOSE d \in D : \A e \in D : d >= e

\* The least distance from leaf l to a leaf of set S; +infinity when S is empty.
Nearest(dist, l, S) ==
    IF S = {} THEN Inf
    ELSE LET D == {dist[<<l, s>>] : s \in S}
         IN CHOOSE d \in D : \A e \in D : d <= e

\* coverage(x, radius): 0 if a radius is set and x <= radius, else x.
coverage(x, rad) == IF rad # <<>> /\ x <= rad[1] THEN 0 ELSE x

\* The distance functions over a distance table: per leaf its baseline
\* distance to the nearest prior center, and the radius the threshold
\* function applies.
distance_functions(dist, leaves, priors, fully, rad) ==
    [dist   |-> dist,
     base   |-> [l \in leaves |-> Nearest(dist, l, priors)],
     radius |-> rad,
     fully  |-> fully]

\* build_distance_functions: one pass over the tree for the distances, then
\* the functions over them.
build_distance_functions(t, priors, fully, rad) ==
    distance_functions(DistanceTable(t), LeafSet(t), priors, fully, rad)

\* Mutant of LeafCost: a leaf with a prior center is charged its baseline
\* distance whatever was selected.
LeafCostBaselineFirst(df, l, d) ==
    coverage(IF df.base[l] < Inf THEN df.base[l] ELSE d, df.radius)

\* What leaf l contributes when its nearest selected representative is at d.
LeafCost(df, l, d) == coverage(Min2(df.base[l], d), df.radius)

\* ---------------------------------------------------------- cost classifier
get_costs(t, excluded, fully) ==
    [l \in LeafSet(t) |->
        IF l \in fully THEN "FullyExcluded"
        ELSE IF l \in excluded THEN "ExcludedCounted"
        ELSE "Selectable"]

Selectable(cm) == {l \in DOMAIN cm : cm[l] = "Selectable"}

Counted(cm) == {l \in DOMAIN cm : cm[l] # "FullyExcluded"}

\* ------------------------------------------------------------ medoid solver
\* cost(S): the sum over the counted leaves, in leaf order.
SetCost(t, S, df, cm) ==
    LET ls == LeafSeq(t)
        RECURSIVE Sum(_)
        Sum(i) == IF i > Len(ls) THEN 0
                  ELSE IF ls[i] \in Counted(cm)
                       THEN Plus(LeafCost(df, ls[i], Nearest(df.dist, ls[i], S)), Sum(i + 1))
                       ELSE Sum(i + 1)
    IN Sum(1)

\* The size-k subsets of the candidate pool.
Candidates(cm, k) == {S \in SUBSET Selectable(cm) : Cardinality(S) = k}

\* The members of S in leaf order.
InLeafOrder(t, S) == SelectSeq(LeafSeq(t), LAMBDA l : l \in S)

\* find_n_medoids: every (representatives, value) the solver may return: the
\* size-k candidate sets of least cost (ties are resolved arbitrarily).  The
\* empty set when k exceeds the number of selectable leaves.
find_n_medoids(t, k, df, cm, max_dist) ==
    LET C == Candidates(cm, k)
        cost == [S \in C |-> SetCost(t, S, df, cm)]
        Best == {S \in C : \A R \in C : cost[S] <= cost[R]}
    IN {[representatives |-> InLeafOrder(t, S), value |-> cost[S]] : S \in Best}

\* ---------------------------------------------------------- result assigner
\* The index a center is annotated with: a selected center its position in
\* the list (from 0), a prior center a negative number.
CenterKeys(centers, priors) ==
    {i - 1 : i \in DOMAIN centers} \cup {-j : j \in DOMAIN priors}

KeyLeaf(centers, priors, k) == IF k >= 0 THEN centers[k + 1] ELSE priors[-k]

\* Selected centers before prior centers, each in list order.
KeyRank(centers, k) == IF k >= 0 THEN k ELSE Len(centers) - k

\* The annotation of a node whose distances to the centers are D: the
\* nearest center, or nothing when there is no center within the radius.
ClosestCenter(D, centers, rad) ==
    IF DOMAIN D = {} THEN <<>>
    ELSE LET k == CHOOSE k \in DOMAIN D : \A j \in DOMAIN D :
                      D[k] < D[j] \/ (D[k] = D[j] /\ KeyRank(centers, k) <= KeyRank(centers, j))
         IN IF rad # <<>> /\ D[k] > rad[1] THEN <<>> ELSE <<k>>

RECURSIVE AnnotateNode(_, _, _, _, _)
\* D[k]: the distance from the root of t to the center with index k.
AnnotateNode(t, D, centers, priors, rad) ==
    [t EXCEPT
       !.center = ClosestCenter(D, centers, rad),
       !.kids = [i \in DOMAIN t.kids |->
                   LET c == t.kids[i]
                       Dc == [k \in DOMAIN D |->
                                LET l == KeyLeaf(centers, priors, k)
                                IN IF l \in LeafSet(c) THEN RootDist(c, l)
                                   ELSE D[k] + c.len]
                   IN AnnotateNode(c, Dc, centers, priors, rad)]]

\* annotate_with_closest_centers: every node gets its 'center' annotation.
annotate_with_closest_centers(t, centers, priors, rad) ==
    AnnotateNode(t,
                 [k \in CenterKeys(centers, priors) |->
                     RootDist(t, KeyLeaf(centers, priors, k))],
                 centers, priors, rad)

\* ---------------------------------------------------------------- colours
\* round(a / b) as Python rounds: to the nearest integer, a tie to the even one.
RoundHalfEven(a, b) ==
    LET fl == a \div b
        rem == a % b
    IN IF 2 * rem < b THEN fl
       ELSE IF 2 * rem > b THEN fl + 1
       ELSE IF fl % 2 = 0 THEN fl ELSE fl + 1

\* [round(255 * c) for c in colorsys.hsv_to_rgb(i / m, 0.7, 0.7)], in exact
\* arithmetic: the hue sector is int(6i/m), its fraction f is (6i mod m)/m,
\* v = 0.7, p = v(1 - s), q = v(1 - s f), t = v(1 - s(1 - f)).  (Agrees with
\* the floating-point result for every palette of fewer than 98 colours.)
Rgb(i, m) ==
    LET sector == (6 * i) \div m
        r == (6 * i) % m
        v == RoundHalfEven(1785, 10)
        p == RoundHalfEven(5355, 100)
        q == RoundHalfEven(17850 * m - 12495 * r, 100 * m)
        t == RoundHalfEven(5355 * m + 12495 * r, 100 * m)
    IN CASE sector % 6 = 0 -> <<v, t, p>>
         [] sector % 6 = 1 -> <<q, v, p>>
         [] sector % 6 = 2 -> <<p, v, t>>
         [] sector % 6 = 3 -> <<p, q, v>>
         [] sector % 6 = 4 -> <<t, p, v>>
         [] OTHER          -> <<v, p, q>>

HexDigit == <<"0", "1", "2", "3", "4", "5", "6", "7", "8", "9", "a", "b", "c", "d", "e", "f">>

\* '%02x' of a value in 0..255.
Hex2(x) == HexDigit[(x \div 16) + 1] \o HexDigit[(x % 16) + 1]

\* '#%02x%02x%02x' % (color[0], color[1], color[2])
HexColor(c) == "#" \o Hex2(c[1]) \o Hex2(c[2]) \o Hex2(c[3])

\* The number of colours chosen: one per center, and one more, reserved,
\* when there are prior centers.
PaletteSize(centers, priors) ==
    IF priors = <<>> THEN Len(centers) ELSE Len(centers) + 1

\* hex_colors before the reserved colour is taken off: slot i, from 0.
Palette(centers, priors) ==
    [i \in 1..PaletteSize(centers, priors) |->
        HexColor(Rgb(i - 1, PaletteSize(centers, priors)))]

\* The reserved colour is the first slot.
PriorSlot == 1

\* The slot of the selected center with index k: hex_colors[k] after the
\* first colour was taken off when there are prior centers.
CenterSlot(k, priors) == IF priors = <<>> THEN k + 1 ELSE k + 2

prior_color(centers, priors) == Palette(centers, priors)[PriorSlot]

hex_colors(centers, priors, k) == Palette(centers, priors)[CenterSlot(k, priors)]

\* Mutant of SameCenter: the two annotations are not compared.
SameCenterUncompared(head, tail) ==
    tail # <<>> /\ head.center # <<>>

\* Whether the edge into head is coloured: it has a tail node, and both ends
\* are annotated with the same center.
SameCenter(head, tail) ==
    tail # <<>> /\ head.center # <<>> /\ head.center = tail[1]

\* The colour of such an edge.
EdgeColor(head, centers, priors) ==
    IF head.center[1] < 0 THEN prior_color(centers, priors)
    ELSE hex_colors(centers, priors, head.center[1])

RECURSIVE ColorEdges(_, _, _, _)
\* The loop over tree.preorder_edge_iter(): tail is <<>> for the edge into
\* the root, and <<center annotation of the tail node>> otherwise.
ColorEdges(head, tail, centers, priors) ==
    [head EXCEPT
       !.color = IF SameCenter(head, tail)
                 THEN <<EdgeColor(head, centers, priors)>>
                 ELSE <<>>,
       !.kids = [i \in DOMAIN head.kids |->
                   ColorEdges(head.kids[i], <<head.center>>, centers, priors)]]

black == "#000000"

\* The '!color' annotations of the taxa after the three taxon loops.
ColorTaxa(t, centers, priors) ==
    [l \in LeafSet(t) |->
        (IF l \in Range(centers) \cup Range(priors) THEN <<>> ELSE <<black>>)
        \o [i \in 1..Cardinality({j \in DOMAIN centers : centers[j] = l}) |->
               hex_colors(centers, priors,
                          (CHOOSE j \in DOMAIN centers : centers[j] = l) - 1)]
        \o [i \in 1..Cardinality({j \in DOMAIN priors : priors[j] = l}) |->
               prior_color(centers, priors)]]

\* ------------------------------------------------------------ program state
VARIABLES
    args,             \* the parsed command line: cover, out_path, n
    parsed_tree,      \* the tree as it was parsed (never changed afterwards)
    query_tree,       \* the tree the script works on, with its annotations
    n,                \* the script's variable n
    radius,           \* <<>> (no radius) or <<r>>
    prior_centers,    \* set of labels
    excluded_taxa,    \* set of labels
    fully_excluded,   \* set of labels
    pc,               \* the script's position
    error,            \* "none", or the failure that ended the run
    dist_functions,   \* <<>> until built
    cost_map,         \* <<>> until built
    representatives,  \* the list find_n_medoids returned last
    value,            \* <<>> until a solve returned, then <<its cost>>
    opt_n,            \* <<>> until the cover loop starts, then <<-1>> or <<n>>
    output,           \* what the script printed about the representatives
    taxon_color       \* the '!color' annotations of the taxa

vars == <<args, parsed_tree, query_tree, n, radius, prior_centers, excluded_taxa,
          fully_excluded, pc, error, dist_functions, cost_map, representatives,
          value, opt_n, output, taxon_color>>

\* ------------------------------------------------------------------ inputs
\* The trees of src/tests/test_tree_medoids.py.
TestTree1 ==
    Inner(0, << Inner(2, << Inner(4, << Leaf("a", 4), Leaf("b", 2) >>), Leaf("e", 2) >>),
                Inner(2, << Leaf("c", 2), Leaf("d", 4) >>) >>)

TestTree2 ==
    Inner(0, << Inner(6, << Leaf("a", 2), Inner(2, << Leaf("b", 5), Leaf("c", 5) >>) >>),
                Inner(4, << Leaf("d", 1), Inner(2, << Leaf("e", 5), Leaf("f", 6) >>) >>) >>)

TestTree3 ==
    Inner(0, << Inner(6, << Leaf("a", 2), Inner(2, << Leaf("b", 5), Leaf("c", 5) >>) >>),
                Inner(4, << Leaf("d", 1), Inner(2, << Leaf("e", 5), Leaf("f", 7) >>) >>) >>)

TestTrees == {TestTree1, TestTree2, TestTree3}

\* The radii of the tests: 4 and 4.5.
TestRadii == {<<>>, <<8>>, <<9>>}

\* A colour left on a node or taxon by an earlier colouring.
stale == "#b23636"

\* Small trees: two leaves; three leaves, coloured before; a node with three
\* children; a node with one child and a zero-length edge; four leaves under
\* one node; a single leaf.
SmallTrees ==
    { Inner(0, << Leaf("a", 1), Leaf("b", 2) >>),
      Node("", 0, << Node("", 1, << Node("a", 1, <<>>, <<stale>>), Leaf("b", 1) >>, <<stale>>),
                     Node("c", 2, <<>>, <<stale>>) >>, <<stale>>),
      Inner(0, << Leaf("a", 1), Leaf("b", 2), Leaf("c", 3) >>),
      Inner(0, << Inner(2, << Leaf("a", 1) >>), Inner(1, << Leaf("b", 1), Leaf("c", 0) >>) >>),
      Inner(0, << Leaf("a", 1) >>) }

\* A label that is no leaf of any tree.
unknown == "zz"

AtMost(S, k) == {X \in SUBSET S : Cardinality(X) <= k}

AtMostOne(S) == {{}} \cup {{x} : x \in S}

RECURSIVE LeafColor(_, _)
LeafColor(t, l) ==
    IF IsLeaf(t) THEN t.color ELSE LeafColor(t.kids[ChildWith(t, l)], l)

Start(t, cover, out, k, rad, priors, excluded, fully, at) ==
    /\ args = [cover |-> cover, out_path |-> out, n |-> k]
    /\ parsed_tree = t
    /\ query_tree = t
    /\ n = k
    /\ radius = rad
    /\ prior_centers = priors
    /\ excluded_taxa = excluded
    /\ fully_excluded = fully
    /\ pc = at
    /\ error = "none"
    /\ dist_functions = <<>>
    /\ cost_map = <<>>
    /\ representatives = <<>>
    /\ value = <<>>
    /\ opt_n = <<>>
    /\ output = <<>>
    /\ taxon_color = [l \in LeafSet(t) |-> LeafColor(t, l)]

InitTests ==
    \E t \in TestTrees, cover \in BOOLEAN, k \in 0..2,
       rad \in TestRadii, priors \in {{}, {"b"}} :
        Start(t, cover, FALSE, k, rad, priors, {}, {}, "parse")

InitSmall ==
    \E t \in SmallTrees, cover \in BOOLEAN, k \in 0..MaxN,
       rad \in {<<>>} \cup {<<r>> : r \in -1..MaxRadius} :
    \E priors \in AtMost(LeafSet(t) \cup {unknown}, MaxPriors),
       excluded \in AtMostOne(LeafSet(t) \cup {unknown}),
       fully \in AtMostOne(LeafSet(t) \cup {unknown}) :
        Start(t, cover, TRUE, k, rad, priors, excluded, fully, "parse")

Init == InitTests \/ InitSmall

\* ------------------------------------------------------------- validation
\* The conditions parse_and_validate rejects.
InvalidConfiguration(t, k, rad, priors, excluded, fully) ==
    \/ k > Cardinality(LeafSet(t) \ (excluded \cup fully))
    \/ (rad # <<>> /\ rad[1] < 0)
    \/ ~ (priors \cup excluded \cup fully \subseteq LeafSet(t))
    \/ excluded \cap fully # {}

DegenerateTree(t) == Len(LeafSeq(t)) < 2

\* What parse_and_validate may end with: "none" (it returns), or a failure.
parse_and_validate(t, k, rad, priors, excluded, fully) ==
    LET E == (IF InvalidConfiguration(t, k, rad, priors, excluded, fully)
              THEN {"InvalidConfiguration"} ELSE {})
             \cup (IF DegenerateTree(t) THEN {"DegenerateTree"} ELSE {})
    IN IF E = {} THEN {"none"} ELSE E

\* ------------------------------------------------------------- the script
\* Mutant of AfterCall: the failure is swallowed and the script goes on.
AfterCallSwallowed(err, next) == next

\* An exception raised by a call is not caught: the script ends there.
AfterCall(err, next) == IF err = "none" THEN next ELSE "failed"

\* The prior centers as the list the script passes on.
PriorList == InLeafOrder(query_tree, prior_centers)

\* Mutant of BinarizeCall: new edges of length 1.
BinarizeCallUnitEdges == binarize_tree(query_tree, 1)

BinarizeCall == binarize_tree(query_tree, 0)

\* Mutants of DistFunctionsCall: the prior centers, or the radius, not passed.
DistFunctionsCallNoPriors ==
    build_distance_functions(query_tree, {}, fully_excluded, radius)

DistFunctionsCallNoRadius ==
    build_distance_functions(query_tree, prior_centers, fully_excluded, <<>>)

DistFunctionsCall ==
    build_distance_functions(query_tree, prior_centers, fully_excluded, radius)

\* Mutants of CostMapCall: the two sets swapped, or the excluded taxa not passed.
CostMapCallSwapped == get_costs(query_tree, fully_excluded, excluded_taxa)

CostMapCallNoExcluded == get_costs(query_tree, {}, fully_excluded)

CostMapCall == get_costs(query_tree, excluded_taxa, fully_excluded)

MedoidsCall == find_n_medoids(query_tree, n, dist_functions, cost_map, radius)

\* range(1, len(query_tree.leaf_nodes()) + 1)
CoverRange == 1..Len(LeafSeq(query_tree))

\* The first n of the cover loop.
CoverFirst == 1

ColorCall ==
    ColorEdges(annotate_with_closest_centers(query_tree, representatives, PriorList, radius),
               <<>>, representatives, PriorList)

Failed(err) ==
    /\ error' = err
    /\ pc' = "failed"
    /\ representatives' = <<>>
    /\ value' = <<>>

\* args, query_tree, n, ... = parse_and_validate()
ParseAndValidate ==
    /\ pc = "parse"
    /\ \E err \in parse_and_validate(query_tree, n, radius, prior_centers,
                                     excluded_taxa, fully_excluded) :
          /\ error' = err
          /\ pc' = AfterCall(err, "binarize")
    /\ UNCHANGED <<args, parsed_tree, query_tree, n, radius, prior_centers, excluded_taxa,
                   fully_excluded, dist_functions, cost_map, representatives, value,
                   opt_n, output, taxon_color>>

\* binarize_tree(query_tree, edge_length=0)
BinarizeTree ==
    /\ pc = "binarize"
    /\ query_tree' = BinarizeCall
    /\ pc' = "distances"
    /\ UNCHANGED <<args, parsed_tree, n, radius, prior_centers, excluded_taxa,
                   fully_excluded, error, dist_functions, cost_map, representatives,
                   value, opt_n, output, taxon_color>>

\* dist_functions = build_distance_functions(...)
BuildDistanceFunctions ==
    /\ pc = "distances"
    /\ dist_functions' = DistFunctionsCall
    /\ pc' = "costs"
    /\ UNCHANGED <<args, parsed_tree, query_tree, n, radius, prior_centers, excluded_taxa,
                   fully_excluded, error, cost_map, representatives, value, opt_n,
                   output, taxon_color>>

\* cost_map = get_costs(...)
GetCosts ==
    /\ pc = "costs"
    /\ cost_map' = CostMapCall
    /\ pc' = IF args.cover THEN "cover_start" ELSE "solve"
    /\ UNCHANGED <<args, parsed_tree, query_tree, n, radius, prior_centers, excluded_taxa,
                   fully_excluded, error, dist_functions, representatives, value, opt_n,
                   output, taxon_color>>

\* representatives, value = find_n_medoids(...), when args.cover is not set
FindNMedoids ==
    /\ pc = "solve"
    /\ LET R == MedoidsCall IN
       IF R = {}
       THEN Failed("InvalidConfiguration")
       ELSE \E r \in R :
               /\ representatives' = r.representatives
               /\ value' = <<r.value>>
               /\ pc' = "report"
               /\ error' = error
    /\ UNCHANGED <<args, parsed_tree, query_tree, n, radius, prior_centers, excluded_taxa,
                   fully_excluded, dist_functions, cost_map, opt_n, output, taxon_color>>

\* opt_n = -1, and the loop takes its first n
CoverStart ==
    /\ pc = "cover_start"
    /\ opt_n' = <<-1>>
    /\ n' = CoverFirst
    /\ pc' = "cover"
    /\ UNCHANGED <<args, parsed_tree, query_tree, radius, prior_centers, excluded_taxa,
                   fully_excluded, error, dist_functions, cost_map, representatives,
                   value, output, taxon_color>>

\* One pass of the cover loop: solve for n; stop at a value of 0, else go
\* on with n + 1 while the range lasts.
CoverIteration ==
    /\ pc = "cover"
    /\ LET R == MedoidsCall IN
       IF R = {}
       THEN Failed("InvalidConfiguration") /\ UNCHANGED <<n, opt_n>>
       ELSE \E r \in R :
               /\ representatives' = r.representatives
               /\ value' = <<r.value>>
               /\ error' = error
               /\ IF r.value = 0
                  THEN opt_n' = <<n>> /\ n' = n /\ pc' = "report"
                  ELSE IF n + 1 \in CoverRange
                       THEN opt_n' = opt_n /\ n' = n + 1 /\ pc' = "cover"
                       ELSE opt_n' = opt_n /\ n' = n /\ pc' = "report"
    /\ UNCHANGED <<args, parsed_tree, query_tree, radius, prior_centers, excluded_taxa,
                   fully_excluded, dist_functions, cost_map, output, taxon_color>>

\* The script reports the representatives, or that none is needed.
Report ==
    /\ pc = "report"
    /\ output' = IF Len(representatives) = 0
                 THEN [message |-> "no new representatives needed", printed |-> <<>>]
                 ELSE [message |-> "Chosen representatives:", printed |-> representatives]
    /\ pc' = IF args.out_path THEN "color" ELSE "done"
    /\ UNCHANGED <<args, parsed_tree, query_tree, n, radius, prior_centers, excluded_taxa,
                   fully_excluded, error, dist_functions, cost_map, representatives,
                   value, opt_n, taxon_color>>

\* color_by_clusters(query_tree, representatives, prior_centers, radius)
ColorByClusters ==
    /\ pc = "color"
    /\ query_tree' = ColorCall
    /\ taxon_color' = ColorTaxa(query_tree, representatives, PriorList)
    /\ pc' = "done"
    /\ UNCHANGED <<args, parsed_tree, n, radius, prior_centers, excluded_taxa,
                   fully_excluded, error, dist_functions, cost_map, representatives,
                   value, opt_n, output>>

Next ==
    \/ ParseAndValidate
    \/ BinarizeTree
    \/ BuildDistanceFunctions
    \/ GetCosts
    \/ FindNMedoids
    \/ CoverStart
    \/ CoverIteration
    \/ Report
    \/ ColorByClusters

Spec == Init /\ [][Next]_vars

\* ------------------------------------------------- the objective, restated
\* The objective of the solver written out over the tree as it was parsed
\* and the inputs as they were given, for the properties below.
RefSelectable == LeafSet(parsed_tree) \ (excluded_taxa \cup fully_excluded)

RefCounted == LeafSet(parsed_tree) \ fully_excluded

RefSubsets(k) == {S \in SUBSET RefSelectable : Cardinality(S) = k}

\* The leaf-to-leaf distances of the tree as it was parsed.
RefDistances == DistanceTable(parsed_tree)

\* The least distance from l to a member of S, +infinity for an empty S.
RefNearest(dist, l, S) ==
    IF S = {} THEN Inf
    ELSE LET D == {dist[<<l, s>>] : s \in S}
         IN CHOOSE d \in D : \A e \in D : d <= e

\* What a leaf is charged when its best available distance is x.
RefCharge(x) == IF radius # <<>> /\ x <= radius[1] THEN 0 ELSE x

\* Sum of f over a set of leaves, +infinity absorbing.
RECURSIVE RefSum(_, _)
RefSum(f, L) ==
    IF L = {} THEN 0
    ELSE LET l == CHOOSE x \in L : TRUE
         IN Plus(f[l], RefSum(f, L \ {l}))

\* cost(S) with prior centers P.
RefCost(dist, S, P) ==
    RefSum([l \in RefCounted |-> RefCharge(RefNearest(dist, l, P \cup S))], RefCounted)

\* The least cost of a size-k subset of the selectable leaves.
RefOptimum(dist, k, P) ==
    LET V == {RefCost(dist, S, P) : S \in RefSubsets(k)}
    IN CHOOSE v \in V : \A w \in V : v <= w

\* A solve has just returned.
JustSolved == value # <<>> /\ pc \in {"cover", "report"}

\* --------------------------------------------------------------- claims
\* C1: solve returns a set S and a cost such that the cost is cost(S) and is
\* the least cost(S') over the size-n subsets S' of the selectable leaves,
\* cost being the sum over the leaves that are not fully excluded of
\* coverage(min(baselineDistance, distance to the nearest member), radius).
C1_OptimalCost ==
    JustSolved =>
        LET k == Len(representatives)
            dist == RefDistances
        IN /\ Range(representatives) \in RefSubsets(k)
           /\ value[1] = RefCost(dist, Range(representatives), prior_centers)
           /\ value[1] = RefOptimum(dist, k, prior_centers)
           /\ (pc = "report" => k = n)

\* test_one_medoid: the first test tree, n = 1: medoid e, objective 18.
C1_Witness ==
    /\ pc = "report"
    /\ ~ args.cover
    /\ parsed_tree = TestTree1
    /\ args.n = 1 /\ radius = <<>> /\ prior_centers = {}
    /\ representatives = <<"e">>
    /\ value = <<36>>

\* What the inputs must not be, restated from the failure conditions.
RefInvalid ==
    \/ args.n > Cardinality(RefSelectable)
    \/ (radius # <<>> /\ radius[1] < 0)
    \/ \E l \in prior_centers \cup excluded_taxa \cup fully_excluded :
          l \notin LeafSet(parsed_tree)
    \/ excluded_taxa \cap fully_excluded # {}

RefDegenerate == Cardinality(LeafSet(parsed_tree)) < 2

\* C2: a successful solve returns exactly n labels, pairwise distinct, each a
\* selectable leaf (none excluded, none fully excluded), and the solve
\* succeeds for every n from 0 to the number of selectable leaves.
C2_SelectionShape ==
    /\ JustSolved =>
          /\ Cardinality(Range(representatives)) = Len(representatives)
          /\ \A i \in DOMAIN representatives :
                /\ representatives[i] \in LeafSet(parsed_tree)
                /\ representatives[i] \notin excluded_taxa
                /\ representatives[i] \notin fully_excluded
          /\ (pc = "report" => Len(representatives) = n)
          /\ (pc = "report" /\ ~ args.cover => Len(representatives) = args.n)
    /\ (pc = "failed" /\ ~ RefInvalid /\ ~ RefDegenerate) =>
          n > Cardinality(RefSelectable)

\* One leaf excluded, one fully excluded, and the third selected.
C2_Witness ==
    /\ pc = "report"
    /\ ~ args.cover
    /\ excluded_taxa = {"a"}
    /\ fully_excluded = {"c"}
    /\ representatives = <<"b">>

\* The value the solver returns for k representatives with prior centers P,
\* over the distances that were built.
SolveValue(k, P) ==
    LET df == distance_functions(dist_functions.dist, DOMAIN cost_map, P,
                                 fully_excluded, radius)
        R == find_n_medoids(query_tree, k, df, cost_map, radius)
    IN (CHOOSE r \in R : TRUE).value

\* Distances and classification are built; no solve has run yet.
ReadyToSolve == pc \in {"solve", "cover_start"}

\* C3: the returned cost is non-increasing in n: cost(n+1) <= cost(n) for
\* every n with n+1 not above the number of selectable leaves.
C3_MonotoneInN ==
    ReadyToSolve =>
        \A k \in 0..(Cardinality(Selectable(cost_map)) - 1) :
            SolveValue(k + 1, prior_centers) <= SolveValue(k, prior_centers)

\* The second test tree: two medoids cost 17.5, one medoid costs more.
C3_Witness ==
    /\ pc = "solve"
    /\ parsed_tree = TestTree2
    /\ radius = <<>> /\ prior_centers = {}
    /\ SolveValue(2, prior_centers) = 35
    /\ SolveValue(1, prior_centers) > 35

\* C4: for the n of the run, adding any leaf label to the prior centers
\* never increases the optimal cost.
C4_MonotoneInPriors ==
    ReadyToSolve =>
        \A p \in DOMAIN cost_map :
            SolveValue(n, prior_centers \cup {p}) <= SolveValue(n, prior_centers)

\* test_one_medoid_w_prior: with prior center b the medoid is c or d, at a
\* cost of 10, below the 18 of the run without prior centers.
C4_Witness ==
    /\ pc = "report"
    /\ ~ args.cover
    /\ parsed_tree = TestTree1
    /\ args.n = 1 /\ radius = <<>> /\ prior_centers = {"b"}
    /\ representatives \in {<<"c">>, <<"d">>}
    /\ value = <<20>>
    /\ SolveValue(1, {}) = 36

\* C5: in the returned cost every counted leaf contributes 0 when a radius is
\* set and its distance to the nearest of the prior centers and selected
\* leaves is at most the radius, and that full distance otherwise.
C5_Threshold ==
    JustSolved =>
        LET dist == RefDistances
            S == Range(representatives)
            d == [l \in RefCounted |-> RefNearest(dist, l, prior_centers \cup S)]
            c == [l \in RefCounted |->
                    LeafCost(dist_functions, l, Nearest(dist_functions.dist, l, S))]
        IN /\ \A l \in RefCounted :
                 /\ c[l] \in {0, d[l]}
                 /\ c[l] = IF radius # <<>> /\ d[l] <= radius[1] THEN 0 ELSE d[l]
           /\ value[1] = RefSum(c, RefCounted)

\* test_two_medoids_w_radius1: radius 4, medoids a and d, objective 13.5;
\* leaf e is at distance 4 from d, equal to the radius, and contributes 0.
C5_Witness ==
    /\ pc = "report"
    /\ ~ args.cover
    /\ parsed_tree = TestTree2
    /\ args.n = 2 /\ radius = <<8>> /\ prior_centers = {}
    /\ representatives = <<"a", "d">>
    /\ value = <<27>>
    /\ RefDistances[<<"e", "d">>] = 8

\* C6: invalid inputs are rejected before any work on the tree begins and
\* nothing is returned: InvalidConfiguration for an n above the number of
\* selectable leaves, a negative radius, an unknown label or overlapping
\* exclusion sets, DegenerateTree for a tree of fewer than two leaves.
C6_EagerRejection ==
    /\ (pc # "parse" /\ (RefInvalid \/ RefDegenerate)) =>
          /\ pc = "failed"
          /\ error \in {"InvalidConfiguration", "DegenerateTree"}
          /\ (error = "InvalidConfiguration" => RefInvalid)
          /\ (error = "DegenerateTree" => RefDegenerate)
          /\ query_tree = parsed_tree
          /\ dist_functions = <<>>
          /\ cost_map = <<>>
    /\ pc = "failed" =>
          /\ error # "none"
          /\ representatives = <<>>
          /\ value = <<>>
          /\ output = <<>>

\* The exclusion sets overlap, and nothing else is wrong.
C6_Witness ==
    /\ pc = "failed"
    /\ error = "InvalidConfiguration"
    /\ excluded_taxa \cap fully_excluded # {}
    /\ args.n = 0 /\ radius = <<>> /\ prior_centers = {}
    /\ ~ RefDegenerate

\* C7: the cover mode reports representatives of cost 0, and no smaller
\* number of new representatives, none included, has cost 0.
C7_MinimumCover ==
    (args.cover /\ pc = "report") =>
        /\ value = <<0>>
        /\ \A k \in 0..(Len(representatives) - 1) :
              RefOptimum(RefDistances, k, prior_centers) # 0

\* C8: solve with n = 0 succeeds and returns the empty selection, at the cost
\* that is the sum over the counted leaves of coverage(baselineDistance),
\* baselineDistance being the least distance to a prior center, +infinity
\* when there is none.
C8_EmptySelection ==
    /\ (~ args.cover /\ args.n = 0 /\ pc = "report") =>
          LET dist == RefDistances
              base == [l \in RefCounted |-> RefNearest(dist, l, prior_centers)]
          IN /\ representatives = <<>>
             /\ value[1] = RefSum([l \in RefCounted |-> RefCharge(base[l])], RefCounted)
             /\ (prior_centers = {} /\ RefCounted # {} => value[1] = Inf)
    /\ (~ args.cover /\ args.n = 0 /\ pc = "failed") => (RefInvalid \/ RefDegenerate)

\* The first test tree with prior center b and nothing selected: the leaves
\* a, e, c, d are charged 3, 4, 6 and 7.
C8_Witness ==
    /\ pc = "report"
    /\ ~ args.cover
    /\ parsed_tree = TestTree1
    /\ args.n = 0 /\ radius = <<>> /\ prior_centers = {"b"}
    /\ representatives = <<>>
    /\ value = <<40>>

\* ------------------------------------------------ trees of any shape
\* A second specification, for the binarization: the parsed tree is grown
\* leaf by leaf and node by node into any shape within the bounds, and
\* binarized at any point.
MaxLeaves == 4
MaxLen == 1
MaxNodes == 5

Labels == <<"a", "b", "c", "d", "e", "f", "g">>

NextLabel == Labels[Len(LeafSeq(query_tree)) + 1]

CanGrowLeaf ==
    /\ pc = "binarize"
    /\ ~ IsLeaf(query_tree)
    /\ Len(LeafSeq(query_tree)) < MaxLeaves
    /\ NodeCount(query_tree) < MaxNodes

Grown(t) ==
    /\ query_tree' = t
    /\ parsed_tree' = t
    /\ UNCHANGED <<args, n, radius, prior_centers, excluded_taxa, fully_excluded, pc,
                   error, dist_functions, cost_map, representatives, value, opt_n,
                   output, taxon_color>>

\* The root gets one more leaf as its last child.
GrowAppend ==
    /\ CanGrowLeaf
    /\ \E len \in 0..MaxLen :
          Grown([query_tree EXCEPT !.kids = Append(@, Leaf(NextLabel, len))])

\* The root gets one more leaf as its first child.
GrowPrepend ==
    /\ CanGrowLeaf
    /\ \E len \in 0..MaxLen :
          Grown([query_tree EXCEPT !.kids = <<Leaf(NextLabel, len)>> \o @])

\* A new root above the tree, the old root its only child.
GrowWrap ==
    /\ pc = "binarize"
    /\ NodeCount(query_tree) < MaxNodes
    /\ \E len \in 0..MaxLen :
          Grown(Inner(0, << [query_tree EXCEPT !.len = len] >>))

InitBin == Start(Leaf("a", 0), FALSE, FALSE, 0, <<>>, {}, {}, {}, "binarize")

NextBin == GrowAppend \/ GrowPrepend \/ GrowWrap \/ BinarizeTree

SpecBin == InitBin /\ [][NextBin]_vars

RECURSIVE Matches(_, _, _)
RECURSIVE ChainOver(_, _)
\* b is what the original node o became, up being the length of the
\* one-child nodes removed above it.
Matches(b, o, up) ==
    IF IsLeaf(o) THEN IsLeaf(b) /\ b.label = o.label /\ b.len = o.len + up
    ELSE IF Len(o.kids) = 1 THEN Matches(b, o.kids[1], up + o.len)
    ELSE b.len = o.len + up /\ ChainOver(b, o.kids)

\* The children of b are the original children ks, joined by a chain of new
\* nodes with zero-length edges: Len(ks) - 1 internal nodes, b included.
ChainOver(b, ks) ==
    /\ Len(b.kids) = 2
    /\ IF Len(ks) = 2
       THEN Matches(b.kids[1], ks[1], 0) /\ Matches(b.kids[2], ks[2], 0)
       ELSE \/ /\ Matches(b.kids[2], ks[Len(ks)], 0)
               /\ b.kids[1].len = 0 /\ b.kids[1].label = ""
               /\ ChainOver(b.kids[1], SubSeq(ks, 1, Len(ks) - 1))
            \/ /\ Matches(b.kids[1], ks[1], 0)
               /\ b.kids[2].len = 0 /\ b.kids[2].label = ""
               /\ ChainOver(b.kids[2], Tail(ks))

\* C9: binarization yields a tree in which every internal node has exactly
\* two children, with the same leaf labels and the same distance between
\* every two leaves; a node with k > 2 children becomes a chain of k - 1
\* internal nodes joined by zero-length edges.
C9_Binarization ==
    pc = "distances" =>
        /\ IsBinary(query_tree)
        /\ Len(LeafSeq(query_tree)) = Len(LeafSeq(parsed_tree))
        /\ LeafSet(query_tree) = LeafSet(parsed_tree)
        /\ \A u, v \in LeafSet(parsed_tree) :
              Distance(query_tree, u, v) = Distance(parsed_tree, u, v)
        /\ Matches(query_tree, parsed_tree, 0)

\* A root with three children, the first of them a node with one child.
C9_Witness ==
    /\ pc = "distances"
    /\ Len(parsed_tree.kids) = 3
    /\ Len(parsed_tree.kids[1].kids) = 1
    /\ Distance(parsed_tree, "a", "c") > 0
    /\ query_tree # parsed_tree

\* ------------------------------------------------------------- colouring
RECURSIVE Nodes(_)
\* The nodes of a tree, each with its subtree.
Nodes(t) == {t} \cup UNION {Nodes(t.kids[i]) : i \in DOMAIN t.kids}

\* The colour of palette slot i (from 0) among m colours.
SlotColor(i, m) == HexColor(Rgb(i, m))

RECURSIVE EdgesColored(_, _)
\* tail is <<>> for the edge into the root, else <<the tail node>>.
EdgesColored(head, tail) ==
    LET same == /\ tail # <<>>
                /\ head.center # <<>>
                /\ tail[1].center = head.center
        m == Len(representatives) + (IF prior_centers = {} THEN 0 ELSE 1)
        k == head.center[1]
    IN /\ (head.color # <<>> => same)
       /\ (~ same => head.color = <<>>)
       /\ (same /\ k < 0 =>
              /\ prior_centers # {}
              /\ head.color = <<SlotColor(0, m)>>)
       /\ (same /\ k >= 0 =>
              /\ k < Len(representatives)
              /\ head.color = <<SlotColor(IF prior_centers = {} THEN k ELSE k + 1, m)>>
              /\ (prior_centers # {} => head.color # <<SlotColor(0, m)>>))
       /\ \A i \in DOMAIN head.kids : EdgesColored(head.kids[i], <<head>>)

\* C10: after color_by_clusters the head node of an edge carries a '!color'
\* annotation only if the edge has both ends and both are annotated with the
\* same center; the colour is then the reserved one for a negative index and
\* otherwise that of the selected center, from another palette slot; the head
\* node of every other edge has no '!color' annotation, an earlier one included.
C10_EdgeColors ==
    (pc = "done" /\ args.out_path) => EdgesColored(query_tree, <<>>)

\* A tree coloured before: afterwards an edge has the reserved colour,
\* another the colour of a selected center, and the root has none.
C10_Witness ==
    /\ pc = "done"
    /\ args.out_path
    /\ parsed_tree.color = <<stale>>
    /\ query_tree.color = <<>>
    /\ \E x \in Nodes(query_tree) : x.color # <<>> /\ x.center[1] < 0
    /\ \E x \in Nodes(query_tree) : x.color # <<>> /\ x.center[1] >= 0
    /\ \E x \in Nodes(query_tree) : x.color = <<>> /\ x.center # <<>> /\ ~ IsLeaf(x)

====
